---- MODULE Spec2Model ----
(***************************************************************************)
(* Model of the dev-mode process supervisor of unc (src/commands/dev.rs),  *)
(* of the tool probe / installer it calls (src/utils/cargo.rs) and of the  *)
(* exit-code mapping of main (src/main.rs).                                *)
(*                                                                         *)
(* The main thread runs dev() from line 85 to its return; `pc` is the line *)
(* of dev.rs the main thread is about to execute.  Two things run beside   *)
(* it: the child processes (which may exit on their own at any moment) and *)
(* the ctrlc handler thread (which may run whenever an interrupt is        *)
(* delivered after the handler has been installed).                        *)
(***************************************************************************)
EXTENDS Integers, Sequences, FiniteSets, TLC

\* ------------------------------------------------------------------ bounds
\* Interrupts (Ctrl+C) delivered in one session.
MaxInterrupts == 2
\* The poll-iteration counter saturates here (the loop itself is not cut).
MaxPolls == 2

\* Longest project name handed to validate_project_name.
MaxNameLen == 3

\* ------------------------------------------------------------ value spaces
\* Exit statuses a child may end with (0 = success).
ExitCodes == {0, 1, 137}
\* The two supervised roles: primary (cargo watch) and secondary (Tailwind).
Roles == {"cargo", "tailwind"}
\* Option<T> as a set with at most one element.
None == {}
Some(x) == {x}

VARIABLES
    pc,               \* line of dev.rs the main thread is at, or "returned" / "exited"
    cargo_guard,      \* "undeclared" | "held" | "empty"   (ProcessGuard.child)
    tailwind_guard,   \* "undeclared" | "None" | "held" | "empty"  (Option<ProcessGuard>)
    proc,             \* role -> "unspawned" | "running" | "exited" | "reaped"
    status,           \* role -> Option of the exit status the process ended with
    tailwind_enabled, \* local of dev(), line 91
    running,          \* the AtomicBool of line 135 (TRUE = not cancelled)
    handlerInstalled, \* ctrlc::set_handler succeeded
    cargo_status,     \* Option of the status try_wait returned (line 168)
    outcome,          \* Option of the Result<()> dev() returns
    exitCode,         \* Option of the process exit code (main)
    killLog,          \* sequence of roles, one entry per child.kill() call, in call order
    waitLog,          \* sequence of roles, one entry per child.wait() call, in call order
    callLog,          \* sequence of <<"kill" | "wait", role>>, every call on a Child in order
    path,             \* which exit path dev() took (history)
    inputs,           \* the environment's answers so far (history)
    warnings,         \* set of warnings printed to the user
    installAttempts,  \* number of `cargo install cargo-watch` runs
    interrupts,       \* interrupts delivered so far
    polls,            \* completed poll iterations (saturating at MaxPolls)
    name,             \* the argument of validate_project_name, a sequence of characters
    result,           \* Option of the Result validate_project_name returned
    create_pc,        \* line of create_app.rs the command is at, "idle" or "returned"
    project_path,     \* what the file system holds at project_path (see Entries)
    closure_result,   \* Option of the Result of the closure of lines 44-49
    create_result,    \* Option of the Result<()> create_app returns
    fsLog,            \* sequence of the file-system calls made on project_path
    create_inputs     \* the environment's answers to create_app so far (history)

vars == <<pc, cargo_guard, tailwind_guard, proc, status, tailwind_enabled, running,
          handlerInstalled, cargo_status, outcome, exitCode, killLog, waitLog, path,
          inputs, warnings, installAttempts, interrupts, polls, callLog, name, result,
          create_pc, project_path, closure_result, create_result, fsLog, create_inputs>>

\* The state of the create-app command's name validation.
validation == <<name, result>>

\* The state of one run of create_app.
creation == <<create_pc, project_path, closure_result, create_result, fsLog, create_inputs>>

\* The state of one dev() session.
session == <<pc, cargo_guard, tailwind_guard, proc, status, tailwind_enabled, running,
             handlerInstalled, cargo_status, outcome, exitCode, killLog, waitLog, callLog,
             path, inputs, warnings, installAttempts, interrupts, polls>>

\* --------------------------------------------------------------- Result<()>
\* anyhow::Result<()>: Ok(()) or an error that carries a message and nothing else.
\* `codes` is the set of child exit codes the value carries.
Ok == [kind |-> "Ok", msg |-> "", codes |-> {}]
Err(m) == [kind |-> "Err", msg |-> m, codes |-> {}]

\* A success() that accepts every status.
success_any(s) == TRUE

\* ExitStatus::success()
success(s) == s = 0

\* -------------------------------------------------------------- ProcessGuard
\* The guards in scope, as the code names them.
GuardState(r) == IF r = "cargo" THEN cargo_guard ELSE tailwind_guard

\* A take() that hands out the child and keeps it too.
take_copy(g) == g

\* ProcessGuard::take: self.child.take() leaves the guard empty.
take(g) == IF g = "held" THEN "empty" ELSE g

\* What take() (or `as_mut().and_then(|g| g.take())`) returned: Some(child) or None.
taken(g) == g = "held"

\* The observable process world: the kill() calls, the wait() calls, the processes.
World == [kills |-> killLog, waits |-> waitLog, calls |-> callLog, proc |-> proc]

\* The two calls in the wrong order: wait() first, kill() after.
WaitThenKill(w, r) ==
    [kills |-> Append(w.kills, r),
     waits |-> Append(w.waits, r),
     calls |-> w.calls \o << <<"wait", r>>, <<"kill", r>> >>,
     proc  |-> [w.proc EXCEPT ![r] = "reaped"]]

\* child.kill(); child.wait(): one terminate call, one blocking wait that reaps.
\* Both results are discarded (`let _ =`).
KillAndWait(w, r) ==
    [kills |-> Append(w.kills, r),
     waits |-> Append(w.waits, r),
     calls |-> w.calls \o << <<"kill", r>>, <<"wait", r>> >>,
     proc  |-> [w.proc EXCEPT ![r] = "reaped"]]

\* A kill that is never followed by wait().
kill_no_wait(w, r) ==
    [w EXCEPT !.kills = Append(w.kills, r), !.calls = Append(w.calls, <<"kill", r>>)]

\* kill_process(child, name)
kill_process(w, r) == KillAndWait(w, r)

\* A guard without a Drop implementation.
drop_nothing(w, g, r) == w

\* Drop for ProcessGuard: kill and wait if the guard still holds the child.
drop(w, g, r) == IF g = "held" THEN KillAndWait(w, r) ELSE w

\* The guards dropped in declaration order.
DropOrder_declared == <<"tailwind", "cargo">>

\* Locals are dropped in reverse order of declaration: cargo_guard (line 132)
\* before tailwind_guard (line 105).
DropOrder == <<"cargo", "tailwind">>

\* Leaving dev() with only the first guard of DropOrder dropped.
ScopeExit_first_only(w) == drop(w, GuardState(DropOrder[1]), DropOrder[1])

\* Leaving dev(): every guard still in scope is dropped, in DropOrder.
ScopeExit(w) ==
    LET a == DropOrder[1]
        b == DropOrder[2]
    IN  drop(drop(w, GuardState(a), a), GuardState(b), b)

\* The explicit kills with Tailwind first.
CancelOrder_tailwind_first == <<"tailwind", "cargo">>

\* The order of the two explicit kills on the cancellation path (lines 152-159).
CancelOrder == <<"cargo", "tailwind">>

\* ------------------------------------------------------------------- helpers
InputKeys == {"probe1", "probe2", "install", "npx1", "npx2", "tw_spawn",
              "cargo_spawn", "handler", "poll_err", "cancel_at", "interrupt_at"}
InstallResults == {"ok", "failed", "io_error"}

Record(k, v) == [inputs EXCEPT ![k] = Some(v)]

SetWorld(w) ==
    /\ killLog' = w.kills
    /\ waitLog' = w.waits
    /\ callLog' = w.calls
    /\ proc' = w.proc

Count(log, r) == Cardinality({i \in 1..Len(log) : log[i] = r})
Index(log, r) == CHOOSE i \in 1..Len(log) : log[i] = r
Spawned(r) == proc[r] # "unspawned"
Returned == pc \in {"returned", "exited"}

\* What create_app is told by its environment: whether the directory existed,
\* and how create_dir_all, the download, the placeholder pass, git init,
\* remove_dir_all and the cargo-watch check went.
CreateKeys == {"existed", "mkdir", "download", "replace", "git", "remove", "cargo_watch"}

\* create_app is not running and has touched nothing.
NoCreation ==
    /\ create_pc = "idle"
    /\ project_path = "absent"
    /\ closure_result = None
    /\ create_result = None
    /\ fsLog = << >>
    /\ create_inputs = [k \in CreateKeys |-> None]

\* ---------------------------------------------------------------------- Init
Init ==
    /\ pc = "l85"
    /\ cargo_guard = "undeclared"
    /\ tailwind_guard = "undeclared"
    /\ proc = [r \in Roles |-> "unspawned"]
    /\ status = [r \in Roles |-> None]
    /\ tailwind_enabled = FALSE
    /\ running = TRUE
    /\ handlerInstalled = FALSE
    /\ cargo_status = None
    /\ outcome = None
    /\ exitCode = None
    /\ killLog = <<>>
    /\ waitLog = <<>>
    /\ callLog = <<>>
    /\ path = "none"
    /\ inputs = [k \in InputKeys |-> None]
    /\ warnings = {}
    /\ installAttempts = 0
    /\ interrupts = 0
    /\ polls = 0
    /\ NoCreation
    /\ name = <<>>
    /\ result = None

\* ------------------------------------------------------------ dev(), starting
\* Line 85: `if !is_cargo_watch_installed()`.  The probe runs `cargo watch
\* --version`; its answer is the environment's.
is_cargo_watch_installed ==
    /\ pc = "l85"
    /\ \E p \in BOOLEAN :
        /\ inputs' = Record("probe1", p)
        /\ pc' = IF p THEN "l91" ELSE "l87"
    /\ UNCHANGED <<validation, creation, cargo_guard, tailwind_guard, proc, status, tailwind_enabled, running,
                   handlerInstalled, cargo_status, outcome, exitCode, killLog, waitLog, callLog,
                   path, warnings, installAttempts, interrupts, polls>>

\* An installer whose failure is ignored.
install_ignored(r) == Ok

\* install_cargo_watch(): the Result of one `cargo install cargo-watch` run.
install_cargo_watch(r) ==
    IF r = "ok" THEN Ok
    ELSE IF r = "failed" THEN Err("Failed to install cargo-watch")
    ELSE Err("io error running cargo install")

\* An ensure_cargo_watch() that tries the install again after a failure.
ensure_cargo_watch_retry ==
    /\ pc = "l87"
    /\ installAttempts < 3
    /\ \E p \in BOOLEAN, r \in InstallResults :
        IF p
        THEN /\ inputs' = Record("probe2", p)
             /\ pc' = "l91"
             /\ UNCHANGED <<installAttempts, outcome, path>>
        ELSE /\ inputs' = [inputs EXCEPT !["probe2"] = Some(p), !["install"] = Some(r)]
             /\ installAttempts' = installAttempts + 1
             /\ pc' = IF install_cargo_watch(r).kind = "Ok" THEN "l91" ELSE "l87"
             /\ UNCHANGED <<outcome, path>>
    /\ UNCHANGED <<validation, creation, cargo_guard, tailwind_guard, proc, status, tailwind_enabled,
                   running, handlerInstalled, cargo_status, exitCode, killLog, waitLog,
                   callLog, warnings, interrupts, polls>>

\* Line 87: `ensure_cargo_watch()?`.  It probes again (cargo.rs line 44) and
\* installs only if the second probe also says no; `?` returns the error.
ensure_cargo_watch ==
    /\ pc = "l87"
    /\ \E p \in BOOLEAN, r \in InstallResults :
        IF p
        THEN /\ inputs' = Record("probe2", p)
             /\ pc' = "l91"
             /\ UNCHANGED <<installAttempts, outcome, path>>
        ELSE /\ inputs' = [inputs EXCEPT !["probe2"] = Some(p), !["install"] = Some(r)]
             /\ installAttempts' = installAttempts + 1
             /\ IF install_cargo_watch(r).kind = "Ok"
                THEN /\ pc' = "l91"
                     /\ UNCHANGED <<outcome, path>>
                ELSE /\ outcome' = Some(install_cargo_watch(r))
                     /\ path' = "install_fail"
                     /\ pc' = "drop"
    /\ UNCHANGED <<validation, creation, cargo_guard, tailwind_guard, proc, status, tailwind_enabled, running,
                   handlerInstalled, cargo_status, exitCode, killLog, waitLog, callLog,
                   warnings, interrupts, polls>>

\* Line 91: `let tailwind_enabled = is_tailwind_enabled();`
is_tailwind_enabled ==
    /\ pc = "l91"
    /\ \E e \in BOOLEAN : tailwind_enabled' = e
    /\ pc' = "l94"
    /\ UNCHANGED <<validation, creation, cargo_guard, tailwind_guard, proc, status, running,
                   handlerInstalled, cargo_status, outcome, exitCode, killLog, waitLog, callLog,
                   path, inputs, warnings, installAttempts, interrupts, polls>>

\* Lines 94-100: the first is_npx_available() probe, evaluated only if Tailwind
\* is enabled (`&&` short-circuits), decides the warning and nothing else.
warn_npx ==
    /\ pc = "l94"
    /\ IF tailwind_enabled
       THEN \E a \in BOOLEAN :
              /\ inputs' = Record("npx1", a)
              /\ warnings' = IF ~a THEN warnings \cup {"npx not found"} ELSE warnings
       ELSE UNCHANGED <<inputs, warnings>>
    /\ pc' = "l105"
    /\ UNCHANGED <<validation, creation, cargo_guard, tailwind_guard, proc, status, tailwind_enabled, running,
                   handlerInstalled, cargo_status, outcome, exitCode, killLog, waitLog, callLog,
                   path, installAttempts, interrupts, polls>>

\* A dev() that propagates the Tailwind spawn error with `?`.
spawn_tailwind_fatal ==
    /\ pc = "l105"
    /\ IF tailwind_enabled
       THEN \E a \in BOOLEAN, ok \in BOOLEAN :
              IF a
              THEN /\ inputs' = [inputs EXCEPT !["npx2"] = Some(a), !["tw_spawn"] = Some(ok)]
                   /\ tailwind_guard' = IF ok THEN "held" ELSE "None"
                   /\ proc' = IF ok THEN [proc EXCEPT !["tailwind"] = "running"] ELSE proc
                   /\ pc' = IF ok THEN "l125" ELSE "drop"
                   /\ outcome' = IF ok THEN outcome ELSE Some(Err("io error spawning tailwindcss"))
              ELSE /\ inputs' = Record("npx2", a)
                   /\ tailwind_guard' = "None"
                   /\ pc' = "l125"
                   /\ UNCHANGED <<proc, outcome>>
       ELSE /\ tailwind_guard' = "None"
            /\ pc' = "l125"
            /\ UNCHANGED <<inputs, proc, outcome>>
    /\ UNCHANGED <<validation, creation, cargo_guard, status, tailwind_enabled, running,
                   handlerInstalled, cargo_status, exitCode, killLog, waitLog, callLog,
                   path, warnings, installAttempts, interrupts, polls>>

\* Lines 105-115: the second is_npx_available() probe and spawn_tailwind_process().
\* A failed spawn leaves the guard None and prints nothing.
spawn_tailwind_process ==
    /\ pc = "l105"
    /\ IF tailwind_enabled
       THEN \E a \in BOOLEAN, ok \in BOOLEAN :
              IF a
              THEN /\ inputs' = [inputs EXCEPT !["npx2"] = Some(a), !["tw_spawn"] = Some(ok)]
                   /\ tailwind_guard' = IF ok THEN "held" ELSE "None"
                   /\ proc' = IF ok THEN [proc EXCEPT !["tailwind"] = "running"] ELSE proc
              ELSE /\ inputs' = Record("npx2", a)
                   /\ tailwind_guard' = "None"
                   /\ UNCHANGED proc
       ELSE /\ tailwind_guard' = "None"
            /\ UNCHANGED <<inputs, proc>>
    /\ pc' = "l125"
    /\ UNCHANGED <<validation, creation, cargo_guard, status, tailwind_enabled, running,
                   handlerInstalled, cargo_status, outcome, exitCode, killLog, waitLog, callLog,
                   path, warnings, installAttempts, interrupts, polls>>

\* Lines 125-132: spawn `cargo watch -x run`; `?` returns the spawn error,
\* otherwise the child goes into cargo_guard.
spawn_cargo_watch ==
    /\ pc = "l125"
    /\ \E ok \in BOOLEAN :
        /\ inputs' = Record("cargo_spawn", ok)
        /\ IF ok
           THEN /\ cargo_guard' = "held"
                /\ proc' = [proc EXCEPT !["cargo"] = "running"]
                /\ pc' = "l138"
                /\ UNCHANGED <<outcome, path>>
           ELSE /\ outcome' = Some(Err("io error spawning cargo watch"))
                /\ path' = "spawn_fail"
                /\ pc' = "drop"
                /\ UNCHANGED <<cargo_guard, proc>>
    /\ UNCHANGED <<validation, creation, tailwind_guard, status, tailwind_enabled, running,
                   handlerInstalled, cargo_status, exitCode, killLog, waitLog, callLog,
                   warnings, installAttempts, interrupts, polls>>

\* Lines 135-140: create the flag (true) and install the handler; `?` returns
\* the ctrlc error.
set_handler ==
    /\ pc = "l138"
    /\ running' = TRUE
    /\ \E ok \in BOOLEAN :
        /\ inputs' = Record("handler", ok)
        /\ IF ok
           THEN /\ handlerInstalled' = TRUE
                /\ pc' = "l148"
                /\ UNCHANGED <<outcome, path>>
           ELSE /\ outcome' = Some(Err("ctrlc: could not set handler"))
                /\ path' = "handler_fail"
                /\ pc' = "drop"
                /\ UNCHANGED handlerInstalled
    /\ UNCHANGED <<validation, creation, cargo_guard, tailwind_guard, proc, status, tailwind_enabled,
                   cargo_status, exitCode, killLog, waitLog, callLog,
                   warnings, installAttempts, interrupts, polls>>

\* ------------------------------------------------------------- the poll loop
\* A loop that never looks at the flag.
load_running_deaf ==
    /\ pc = "l148"
    /\ pc' = "l166"
    /\ UNCHANGED <<validation, creation, cargo_guard, tailwind_guard, proc, status, tailwind_enabled,
                   running, handlerInstalled, cargo_status, outcome, exitCode, killLog,
                   waitLog, callLog, path, inputs, warnings, installAttempts, interrupts,
                   polls>>

\* A loop that honours the flag only while cargo watch has not exited.
load_running_exit_first ==
    /\ pc = "l148"
    /\ IF ~running /\ proc["cargo"] # "exited"
       THEN /\ pc' = "l152"
            /\ path' = "cancel"
            /\ inputs' = Record("cancel_at", polls)
       ELSE /\ pc' = "l166"
            /\ UNCHANGED <<path, inputs>>
    /\ UNCHANGED <<validation, creation, cargo_guard, tailwind_guard, proc, status, tailwind_enabled,
                   running, handlerInstalled, cargo_status, outcome, exitCode, killLog,
                   waitLog, callLog, warnings, installAttempts, interrupts, polls>>

\* Line 148: `if !running.load(SeqCst)`.
load_running ==
    /\ pc = "l148"
    /\ IF ~running
       THEN /\ pc' = "l152"
            /\ path' = "cancel"
            /\ inputs' = Record("cancel_at", polls)
       ELSE /\ pc' = "l166"
            /\ UNCHANGED <<path, inputs>>
    /\ UNCHANGED <<validation, creation, cargo_guard, tailwind_guard, proc, status, tailwind_enabled, running,
                   handlerInstalled, cargo_status, outcome, exitCode, killLog, waitLog, callLog,
                   warnings, installAttempts, interrupts, polls>>

\* The guard of role r after an explicit `take()`, the other guard untouched.
TakeGuard(r) ==
    IF r = "cargo"
    THEN /\ cargo_guard' = take(cargo_guard)
         /\ UNCHANGED tailwind_guard
    ELSE /\ tailwind_guard' = take(tailwind_guard)
         /\ UNCHANGED cargo_guard

\* `if let Some(child) = guard.take() { kill_process(child, name) }`
TakeAndKill(r) ==
    /\ TakeGuard(r)
    /\ SetWorld(IF taken(GuardState(r)) THEN kill_process(World, r) ELSE World)

\* Lines 152-154: the first explicit kill of the cancellation path.
cancel_kill_first ==
    /\ pc = "l152"
    /\ TakeAndKill(CancelOrder[1])
    /\ pc' = "l157"
    /\ UNCHANGED <<validation, creation, status, tailwind_enabled, running, handlerInstalled, cargo_status,
                   outcome, exitCode, path, inputs, warnings, installAttempts,
                   interrupts, polls>>

\* Lines 157-162: the second explicit kill, then `return Ok(())`.
cancel_kill_second ==
    /\ pc = "l157"
    /\ TakeAndKill(CancelOrder[2])
    /\ outcome' = Some(Ok)
    /\ pc' = "drop"
    /\ UNCHANGED <<validation, creation, status, tailwind_enabled, running, handlerInstalled, cargo_status,
                   exitCode, path, inputs, warnings, installAttempts,
                   interrupts, polls>>

\* An exit check that reads the latch again first and, finding it set, goes
\* back to the top of the loop without looking at cargo watch.
try_wait_recheck ==
    /\ pc = "l166"
    /\ IF ~running
       THEN /\ pc' = "l148"
            /\ UNCHANGED <<proc, cargo_status, polls, inputs, outcome, path>>
       ELSE IF cargo_guard = "held"
       THEN \E e \in BOOLEAN :
              /\ inputs' = Record("poll_err", e)
              /\ IF e
                 THEN /\ outcome' = Some(Err("io error in try_wait"))
                      /\ path' = "poll_err"
                      /\ pc' = "drop"
                      /\ UNCHANGED <<proc, cargo_status, polls>>
                 ELSE IF proc["cargo"] = "exited"
                 THEN /\ cargo_status' = status["cargo"]
                      /\ proc' = [proc EXCEPT !["cargo"] = "reaped"]
                      /\ path' = "exit"
                      /\ pc' = "l184"
                      /\ UNCHANGED <<outcome, polls>>
                 ELSE /\ polls' = IF polls < MaxPolls THEN polls + 1 ELSE polls
                      /\ pc' = "l148"
                      /\ UNCHANGED <<proc, cargo_status, outcome, path>>
       ELSE /\ outcome' = Some(Err("cargo-watch process was lost"))
            /\ path' = "lost"
            /\ pc' = "drop"
            /\ UNCHANGED <<proc, cargo_status, polls, inputs>>
    /\ UNCHANGED <<validation, creation, cargo_guard, tailwind_guard, status, tailwind_enabled, running,
                   handlerInstalled, exitCode, killLog, waitLog, callLog,
                   warnings, installAttempts, interrupts>>

\* An exit check that moves the handle out of the guard (`take()` where the
\* code has `as_mut()`), so that the next iteration finds the guard empty.
try_wait_take ==
    /\ pc = "l166"
    /\ cargo_guard' = take(cargo_guard)
    /\ IF cargo_guard = "held"
       THEN \E e \in BOOLEAN :
              /\ inputs' = Record("poll_err", e)
              /\ IF e
                 THEN /\ outcome' = Some(Err("io error in try_wait"))
                      /\ path' = "poll_err"
                      /\ pc' = "drop"
                      /\ UNCHANGED <<proc, cargo_status, polls>>
                 ELSE IF proc["cargo"] = "exited"
                 THEN /\ cargo_status' = status["cargo"]
                      /\ proc' = [proc EXCEPT !["cargo"] = "reaped"]
                      /\ path' = "exit"
                      /\ pc' = "l184"
                      /\ UNCHANGED <<outcome, polls>>
                 ELSE /\ polls' = IF polls < MaxPolls THEN polls + 1 ELSE polls
                      /\ pc' = "l148"
                      /\ UNCHANGED <<proc, cargo_status, outcome, path>>
       ELSE /\ outcome' = Some(Err("cargo-watch process was lost"))
            /\ path' = "lost"
            /\ pc' = "drop"
            /\ UNCHANGED <<proc, cargo_status, polls, inputs>>
    /\ UNCHANGED <<validation, creation, tailwind_guard, status, tailwind_enabled, running,
                   handlerInstalled, exitCode, killLog, waitLog, callLog,
                   warnings, installAttempts, interrupts>>

\* Lines 166-180: `cargo_guard.child.as_mut()` and `child.try_wait()`.
\* try_wait reaps an exited child and yields its status; it may fail.
try_wait ==
    /\ pc = "l166"
    /\ IF cargo_guard = "held"
       THEN \E e \in BOOLEAN :
              /\ inputs' = Record("poll_err", e)
              /\ IF e
                 THEN /\ outcome' = Some(Err("io error in try_wait"))
                      /\ path' = "poll_err"
                      /\ pc' = "drop"
                      /\ UNCHANGED <<proc, cargo_status, polls>>
                 ELSE IF proc["cargo"] = "exited"
                 THEN /\ cargo_status' = status["cargo"]
                      /\ proc' = [proc EXCEPT !["cargo"] = "reaped"]
                      /\ path' = "exit"
                      /\ pc' = "l184"
                      /\ UNCHANGED <<outcome, polls>>
                 ELSE /\ polls' = IF polls < MaxPolls THEN polls + 1 ELSE polls
                      /\ pc' = "l148"
                      /\ UNCHANGED <<proc, cargo_status, outcome, path>>
       ELSE /\ outcome' = Some(Err("cargo-watch process was lost"))
            /\ path' = "lost"
            /\ pc' = "drop"
            /\ UNCHANGED <<proc, cargo_status, polls, inputs>>
    /\ UNCHANGED <<validation, creation, cargo_guard, tailwind_guard, status, tailwind_enabled, running,
                   handlerInstalled, exitCode, killLog, waitLog, callLog,
                   warnings, installAttempts, interrupts>>

\* A primary-exit path that leaves Tailwind to its guard.
exit_skip_tailwind ==
    /\ pc = "l184"
    /\ pc' = "l188"
    /\ UNCHANGED <<validation, creation, cargo_guard, tailwind_guard, proc, killLog, waitLog, callLog,
                   status, tailwind_enabled, running, handlerInstalled, cargo_status,
                   outcome, exitCode, path, inputs, warnings, installAttempts,
                   interrupts, polls>>

\* Lines 184-186: cargo watch has exited; kill Tailwind if its guard holds it.
exit_kill_tailwind ==
    /\ pc = "l184"
    /\ TakeAndKill("tailwind")
    /\ pc' = "l188"
    /\ UNCHANGED <<validation, creation, status, tailwind_enabled, running, handlerInstalled, cargo_status,
                   outcome, exitCode, path, inputs, warnings, installAttempts,
                   interrupts, polls>>

\* Lines 188-192 as a function of the status try_wait returned.
classify(s) ==
    IF ~success(s) THEN Err("cargo watch exited with an error") ELSE Ok

\* A classification that also fails on a failed Tailwind.
exit_result_with_tailwind ==
    IF status["tailwind"] \cap {1, 137} # {}
    THEN Err("tailwind exited with an error")
    ELSE classify(CHOOSE s \in cargo_status : TRUE)

\* The Result the primary-exit path returns.
exit_result == classify(CHOOSE s \in cargo_status : TRUE)

\* A supervisor that goes back to polling after a failed cargo watch.
classify_status_restart ==
    /\ pc = "l188"
    /\ IF exit_result = Ok
       THEN outcome' = Some(Ok) /\ pc' = "drop"
       ELSE outcome' = outcome /\ pc' = "l148"
    /\ UNCHANGED <<validation, creation, cargo_guard, tailwind_guard, proc, status, tailwind_enabled, running,
                   handlerInstalled, cargo_status, exitCode, killLog, waitLog, callLog,
                   path, inputs, warnings, installAttempts, interrupts, polls>>

\* Lines 188-192: `if !cargo_status.success() { bail!(..) }  Ok(())`.
classify_status ==
    /\ pc = "l188"
    /\ outcome' = Some(exit_result)
    /\ pc' = "drop"
    /\ UNCHANGED <<validation, creation, cargo_guard, tailwind_guard, proc, status, tailwind_enabled, running,
                   handlerInstalled, cargo_status, exitCode, killLog, waitLog, callLog,
                   path, inputs, warnings, installAttempts, interrupts, polls>>

\* Every `return`, `?` and `bail!` of dev(): the guards in scope are dropped,
\* then the Result reaches the caller.
drop_guards ==
    /\ pc = "drop"
    /\ SetWorld(ScopeExit(World))
    /\ cargo_guard' = take(cargo_guard)
    /\ tailwind_guard' = take(tailwind_guard)
    /\ pc' = "returned"
    /\ UNCHANGED <<validation, creation, status, tailwind_enabled, running, handlerInstalled, cargo_status,
                   outcome, exitCode, path, inputs, warnings, installAttempts,
                   interrupts, polls>>

\* A main that discards the Result.
exit_code_zero(res) == 0

\* main(): `if let Err(e) = run() { ...; std::process::exit(1) }`, else status 0.
exit_code(res) == IF res.kind = "Err" THEN 1 ELSE 0

main ==
    /\ pc = "returned"
    /\ exitCode' = Some(exit_code(CHOOSE o \in outcome : TRUE))
    /\ pc' = "exited"
    /\ UNCHANGED <<validation, creation, cargo_guard, tailwind_guard, proc, status, tailwind_enabled, running,
                   handlerInstalled, cargo_status, outcome, killLog, waitLog, callLog,
                   path, inputs, warnings, installAttempts, interrupts, polls>>

\* ------------------------------------------------------------ the environment
\* A running child ends on its own, with any status.
process_exits(r) ==
    /\ proc[r] = "running"
    /\ \E c \in ExitCodes :
        /\ status' = [status EXCEPT ![r] = Some(c)]
        /\ proc' = [proc EXCEPT ![r] = "exited"]
    /\ UNCHANGED <<validation, creation, pc, cargo_guard, tailwind_guard, tailwind_enabled, running,
                   handlerInstalled, cargo_status, outcome, exitCode, killLog, waitLog, callLog,
                   path, inputs, warnings, installAttempts, interrupts, polls>>

cargo_exits == process_exits("cargo")
tailwind_exits == process_exits("tailwind")

\* A handler that flips the flag.
handler_toggle(flag) == ~flag

\* The closure of line 138-140: `r.store(false, SeqCst)`.
handler_store(flag) == FALSE

\* A handler that also kills cargo watch itself.
interrupt_and_kill ==
    /\ handlerInstalled
    /\ pc # "exited"
    /\ interrupts < MaxInterrupts
    /\ interrupts' = interrupts + 1
    /\ running' = handler_store(running)
    /\ inputs' = IF inputs["interrupt_at"] = None THEN Record("interrupt_at", pc) ELSE inputs
    /\ SetWorld(IF proc["cargo"] = "running" THEN kill_process(World, "cargo") ELSE World)
    /\ UNCHANGED <<validation, creation, pc, cargo_guard, tailwind_guard, status, tailwind_enabled,
                   handlerInstalled, cargo_status, outcome, exitCode,
                   path, warnings, installAttempts, polls>>

\* An interrupt is delivered and the ctrlc thread runs the handler.  Before
\* set_handler succeeds an interrupt ends the process by the default signal
\* disposition: dev() never returns then, and that run is not a behaviour here.
\* inputs["interrupt_at"] keeps where the main thread stood at the first one.
interrupt ==
    /\ handlerInstalled
    /\ pc # "exited"
    /\ interrupts < MaxInterrupts
    /\ interrupts' = interrupts + 1
    /\ running' = handler_store(running)
    /\ inputs' = IF inputs["interrupt_at"] = None THEN Record("interrupt_at", pc) ELSE inputs
    /\ UNCHANGED <<validation, creation, pc, cargo_guard, tailwind_guard, proc, status, tailwind_enabled,
                   handlerInstalled, cargo_status, outcome, exitCode, killLog, waitLog, callLog,
                   path, warnings, installAttempts, polls>>

\* -------------------------------------------------------------- specification
Next ==
    \/ is_cargo_watch_installed
    \/ ensure_cargo_watch
    \/ is_tailwind_enabled
    \/ warn_npx
    \/ spawn_tailwind_process
    \/ spawn_cargo_watch
    \/ set_handler
    \/ load_running
    \/ cancel_kill_first
    \/ cancel_kill_second
    \/ try_wait
    \/ exit_kill_tailwind
    \/ classify_status
    \/ drop_guards
    \/ main
    \/ cargo_exits
    \/ tailwind_exits
    \/ interrupt

Spec == Init /\ [][Next]_vars

\* The steps of the main thread: dev() from line 85 to its return, then main.
MainThread ==
    \/ is_cargo_watch_installed
    \/ ensure_cargo_watch
    \/ is_tailwind_enabled
    \/ warn_npx
    \/ spawn_tailwind_process
    \/ spawn_cargo_watch
    \/ set_handler
    \/ load_running
    \/ cancel_kill_first
    \/ cancel_kill_second
    \/ try_wait
    \/ exit_kill_tailwind
    \/ classify_status
    \/ drop_guards
    \/ main

\* The main thread is scheduled whenever it can run: none of its steps blocks
\* for ever (sleep is bounded; wait() follows kill()).  Nothing is assumed of
\* the children or of the user: a child need never exit, an interrupt need
\* never come.
FairSpec == Spec /\ WF_vars(MainThread)

\* ------------------------------------------------------ validate_project_name
\* Characters a project name is drawn from: letters of both cases, a digit,
\* the hyphen, the underscore, a space, a symbol and a newline.
Chars == {"a", "Z", "7", "-", "_", " ", "@", "\n"}
Letter == {"a", "Z"}
Digit == {"7"}
Names == UNION {[1..n -> Chars] : n \in 0..MaxNameLen}

\* An automaton whose first class is the same as the class of the rest.
re_step_loose(q, c) ==
    IF q = "dead" THEN "dead"
    ELSE IF c \in Letter \cup Digit \cup {"_", "-"} THEN "rest" ELSE "dead"

\* One step of the automaton of the regex ^[a-zA-Z][a-zA-Z0-9_-]*$ (line 10):
\* "first" expects [a-zA-Z], "rest" expects [a-zA-Z0-9_-], "dead" has failed.
re_step(q, c) ==
    IF q = "first" THEN (IF c \in Letter THEN "rest" ELSE "dead")
    ELSE IF q = "rest" THEN (IF c \in Letter \cup Digit \cup {"_", "-"} THEN "rest" ELSE "dead")
    ELSE "dead"

RECURSIVE re_run(_, _)
re_run(q, s) == IF s = <<>> THEN q ELSE re_run(re_step(q, Head(s)), Tail(s))

\* Regex::is_match: the pattern is anchored at both ends, and `$` matches at
\* the end of the text only.
is_match(n) == re_run("first", n) = "rest"

\* validate_project_name(name), lines 9-18.
validate_project_name(n) ==
    IF ~is_match(n) THEN Err("Invalid project name") ELSE Ok

\* One call of validate_project_name on the name at hand.
validate ==
    /\ result = None
    /\ result' = Some(validate_project_name(name))
    /\ UNCHANGED <<name, creation, pc, cargo_guard, tailwind_guard, proc, status, tailwind_enabled,
                   running, handlerInstalled, cargo_status, outcome, exitCode, killLog,
                   waitLog, callLog, path, inputs, warnings, installAttempts, interrupts,
                   polls>>

\* The create-app command is handed any name; dev() is not running.
InitValidate ==
    /\ name \in Names
    /\ result = None
    /\ pc = "l85"
    /\ cargo_guard = "undeclared"
    /\ tailwind_guard = "undeclared"
    /\ proc = [r \in Roles |-> "unspawned"]
    /\ status = [r \in Roles |-> None]
    /\ tailwind_enabled = FALSE
    /\ running = TRUE
    /\ handlerInstalled = FALSE
    /\ cargo_status = None
    /\ outcome = None
    /\ exitCode = None
    /\ killLog = <<>>
    /\ waitLog = <<>>
    /\ callLog = <<>>
    /\ path = "none"
    /\ inputs = [k \in InputKeys |-> None]
    /\ warnings = {}
    /\ installAttempts = 0
    /\ interrupts = 0
    /\ polls = 0
    /\ NoCreation

NextValidate == validate

SpecValidate == InitValidate /\ [][NextValidate]_vars

\* ================================================================= create_app
\* What the file system holds at project_path: nothing; a directory that was
\* there before create_app ran; the directory create_app made, still empty;
\* that directory with part of a template or half-rewritten files; with the
\* whole template; with the placeholders replaced; with a git repository too.
Entries == {"absent", "foreign", "empty", "partial", "template", "project", "repo"}

\* `path.exists()`
exists(p) == p # "absent"

DownloadResults == {"ok", "failed_before_copy", "failed_in_copy"}
GitResults == {"no_git", "ok", "init_failed", "spawn_error"}
CargoWatchResults == {"present"} \cup InstallResults

RecordCreate(k, v) == [create_inputs EXCEPT ![k] = Some(v)]

\* Line 25: `validate_project_name(name)?`.
create_validate ==
    /\ create_pc = "l25"
    /\ IF validate_project_name(name) = Ok
       THEN /\ create_pc' = "l36"
            /\ UNCHANGED create_result
       ELSE /\ create_result' = Some(validate_project_name(name))
            /\ create_pc' = "returned"
    /\ UNCHANGED <<validation, session, project_path, closure_result, fsLog, create_inputs>>

\* Lines 36 and 77-83: `if path.exists() { bail!("Directory '{}' already exists") }`.
check_directory_exists ==
    /\ create_pc = "l36"
    /\ IF exists(project_path)
       THEN /\ create_result' = Some(Err("Directory already exists"))
            /\ create_pc' = "returned"
       ELSE /\ create_pc' = "l37"
            /\ UNCHANGED create_result
    /\ UNCHANGED <<validation, session, project_path, closure_result, fsLog, create_inputs>>

\* Line 37 and file_ops.rs line 88-90: `fs::create_dir_all(path)`, which may
\* fail and which leaves a directory that is already there as it is.
ensure_directory ==
    /\ create_pc = "l37"
    /\ fsLog' = Append(fsLog, "create_dir_all")
    /\ \E ok \in BOOLEAN :
        /\ create_inputs' = RecordCreate("mkdir", ok)
        /\ IF ok
           THEN /\ project_path' = IF exists(project_path) THEN project_path ELSE "empty"
                /\ create_pc' = "l45"
                /\ UNCHANGED create_result
           ELSE /\ create_result' = Some(Err("Failed to create directory"))
                /\ create_pc' = "returned"
                /\ UNCHANGED project_path
    /\ UNCHANGED <<validation, session, closure_result>>

\* Line 45 and download.rs lines 19-40: the download and the extraction work
\* in memory and in a temporary directory; copy_dir_recursively then writes
\* into project_path and may fail half way.
download_template ==
    /\ create_pc = "l45"
    /\ \E r \in DownloadResults :
        /\ create_inputs' = RecordCreate("download", r)
        /\ IF r = "ok"
           THEN /\ project_path' = "template"
                /\ fsLog' = Append(fsLog, "copy")
                /\ create_pc' = "l46"
                /\ UNCHANGED closure_result
           ELSE IF r = "failed_in_copy"
           THEN /\ project_path' = "partial"
                /\ fsLog' = Append(fsLog, "copy")
                /\ closure_result' = Some(Err("Failed to copy template"))
                /\ create_pc' = "l52"
           ELSE /\ closure_result' = Some(Err("Failed to download template"))
                /\ create_pc' = "l52"
                /\ UNCHANGED <<project_path, fsLog>>
    /\ UNCHANGED <<validation, session, create_result>>

\* Line 46 and process.rs lines 25-54: files are rewritten in place; a failed
\* File::create or write_all ends the pass with some files rewritten.
replace_placeholders ==
    /\ create_pc = "l46"
    /\ fsLog' = Append(fsLog, "write")
    /\ \E ok \in BOOLEAN :
        /\ create_inputs' = RecordCreate("replace", ok)
        /\ IF ok
           THEN /\ project_path' = "project"
                /\ create_pc' = "l47"
                /\ UNCHANGED closure_result
           ELSE /\ project_path' = "partial"
                /\ closure_result' = Some(Err("Failed to write file"))
                /\ create_pc' = "l52"
    /\ UNCHANGED <<validation, session, create_result>>

\* Line 47 and git.rs lines 16-46: init_git_repo warns and returns Ok(())
\* whether git is missing, `git init` fails or cannot be run, or all went well.
init_git_repo ==
    /\ create_pc = "l47"
    /\ \E r \in GitResults :
        /\ create_inputs' = RecordCreate("git", r)
        /\ project_path' = IF r = "ok" THEN "repo" ELSE project_path
        /\ fsLog' = IF r \in {"ok", "init_failed"} THEN Append(fsLog, "git init") ELSE fsLog
    /\ closure_result' = Some(Ok)
    /\ create_pc' = "l52"
    /\ UNCHANGED <<validation, session, create_result>>

\* A cleanup that leaves the directory where it is.
cleanup_directory_keep(p, removed) == p

\* Lines 109-115: `if path.exists() { let _ = fs::remove_dir_all(path); }`.
\* `removed` is whether remove_dir_all succeeded; its error is discarded.
cleanup_directory(p, removed) ==
    IF exists(p) /\ removed THEN "absent" ELSE p

\* Lines 52-60: `if let Err(e) = result { ...; cleanup_directory(..); return Err(e) }`.
handle_result ==
    /\ create_pc = "l52"
    /\ IF closure_result # Some(Ok)
       THEN /\ \E removed \in BOOLEAN :
                 /\ project_path' = cleanup_directory(project_path, removed)
                 /\ create_inputs' = IF exists(project_path)
                                     THEN RecordCreate("remove", removed)
                                     ELSE create_inputs
            /\ fsLog' = IF exists(project_path)
                        THEN Append(fsLog, "remove_dir_all")
                        ELSE fsLog
            /\ create_result' = closure_result
            /\ create_pc' = "returned"
       ELSE /\ create_pc' = "l63"
            /\ UNCHANGED <<project_path, create_inputs, fsLog, create_result>>
    /\ UNCHANGED <<validation, session, closure_result>>

\* Lines 63-68: `let _ = ensure_cargo_watch();` then the success message and Ok(()).
create_ensure_cargo_watch ==
    /\ create_pc = "l63"
    /\ \E r \in CargoWatchResults : create_inputs' = RecordCreate("cargo_watch", r)
    /\ create_result' = Some(Ok)
    /\ create_pc' = "returned"
    /\ UNCHANGED <<validation, session, project_path, closure_result, fsLog>>

\* create_app is called with any name, in a directory where project_path is
\* free or taken; dev() is not running.
InitCreate ==
    /\ name \in Names
    /\ result = None
    /\ create_pc = "l25"
    /\ project_path \in {"absent", "foreign"}
    /\ closure_result = None
    /\ create_result = None
    /\ fsLog = << >>
    /\ create_inputs = [k \in CreateKeys |->
                          IF k = "existed" THEN Some(exists(project_path)) ELSE None]
    /\ pc = "l85"
    /\ cargo_guard = "undeclared"
    /\ tailwind_guard = "undeclared"
    /\ proc = [r \in Roles |-> "unspawned"]
    /\ status = [r \in Roles |-> None]
    /\ tailwind_enabled = FALSE
    /\ running = TRUE
    /\ handlerInstalled = FALSE
    /\ cargo_status = None
    /\ outcome = None
    /\ exitCode = None
    /\ killLog = <<>>
    /\ waitLog = <<>>
    /\ callLog = <<>>
    /\ path = "none"
    /\ inputs = [k \in InputKeys |-> None]
    /\ warnings = {}
    /\ installAttempts = 0
    /\ interrupts = 0
    /\ polls = 0

NextCreate ==
    \/ create_validate
    \/ check_directory_exists
    \/ ensure_directory
    \/ download_template
    \/ replace_placeholders
    \/ init_git_repo
    \/ handle_result
    \/ create_ensure_cargo_watch

SpecCreate == InitCreate /\ [][NextCreate]_vars

\* ===================================================================== claims
InstallFailed == inputs["install"] \cap {"failed", "io_error"} # {}
CargoSpawnFailed == inputs["cargo_spawn"] = Some(FALSE)
HandlerFailed == inputs["handler"] = Some(FALSE)
BothKilled == Count(killLog, "cargo") >= 1 /\ Count(killLog, "tailwind") >= 1
IsErr(o) == o.kind = "Err"

\* C1 (single kill): on every path of dev(), each process handle receives at
\* most one kill() call, whether from kill_process after take or from drop.
C1_SingleKill == \A r \in Roles : Count(killLog, r) <= 1

\* C1 witness: the primary-exit path has returned; Tailwind was killed by
\* kill_process and cargo watch by its guard's drop, once each.
C1_Witness ==
    /\ pc = "returned"
    /\ path = "exit"
    /\ killLog = <<"tailwind", "cargo">>

C3_Original == CargoSpawnFailed => killLog = <<>>

\* C3 amended: if spawning cargo watch fails, no kill is ever issued to the
\* primary, and the only kill of the session is the single guard-drop kill of
\* Tailwind when Tailwind had been spawned; with no Tailwind spawned there are
\* zero kills.
C3_NoPrimaryKill ==
    CargoSpawnFailed =>
        /\ ~Spawned("cargo")
        /\ killLog = IF Returned /\ Spawned("tailwind") THEN <<"tailwind">> ELSE <<>>

\* C3 witness: cargo watch failed to spawn after Tailwind had been spawned, and
\* dev() has returned.
C3_Witness ==
    /\ CargoSpawnFailed
    /\ Spawned("tailwind")
    /\ pc = "returned"

\* C4 (no leaked child): when dev() has returned, Ok or Err, every process
\* spawned in the session has been observed exited by try_wait or has been
\* sent kill() and waited on, is reaped, and no guard still holds a handle.
C4_NoLeak ==
    Returned =>
        \A r \in Roles :
            /\ GuardState(r) # "held"
            /\ Spawned(r) =>
                /\ proc[r] = "reaped"
                /\ \/ (r = "cargo" /\ cargo_status # None)
                   \/ (Count(killLog, r) >= 1 /\ Count(waitLog, r) >= 1)

\* C4 witness: dev() returned an error from the poll loop with both children
\* spawned and still running at that moment.
C4_Witness ==
    /\ pc = "returned"
    /\ path = "poll_err"
    /\ Spawned("tailwind")
    /\ status["cargo"] = None /\ status["tailwind"] = None

\* C5 (cancellation monotonicity): once the `running` flag is false it is
\* never true again, whatever interrupts and poll iterations follow.
C5_Monotone == [][running = FALSE => running' = FALSE]_vars

\* C5 witness: the flag is false after a second interrupt was delivered while
\* the loop was between its flag check and try_wait, after a full iteration.
C5_Witness ==
    /\ ~running
    /\ interrupts = 2
    /\ polls >= 1
    /\ pc = "l166"

\* The Result of dev() as a function of the environment's answers about the
\* installer, the primary, the handler and the cancellation; it reads nothing
\* about Tailwind (enablement, spawn, liveness or exit status).
ExpectedOutcome ==
    IF InstallFailed THEN install_cargo_watch(CHOOSE r \in inputs["install"] : TRUE)
    ELSE IF CargoSpawnFailed THEN Err("io error spawning cargo watch")
    ELSE IF HandlerFailed THEN Err("ctrlc: could not set handler")
    ELSE IF inputs["cancel_at"] # None THEN Ok
    ELSE IF inputs["poll_err"] = Some(TRUE) THEN Err("io error in try_wait")
    ELSE IF \E c \in status["cargo"] : c = 0 THEN Ok
    ELSE Err("cargo watch exited with an error")

\* C6 (outcome determinism): the Result dev() returns is determined by the
\* install result, the primary's spawn result, the handler-install result, what
\* the poll loop observed of the primary and whether cancellation was observed;
\* Tailwind's liveness and exit status never change it.
C6_Determinism == Returned => outcome = Some(ExpectedOutcome)

\* C6 witness: Tailwind ended on its own with status 137 while cargo watch
\* ended with 0, and dev() returned Ok.
C6_Witness ==
    /\ pc = "returned"
    /\ status["tailwind"] = Some(137)
    /\ status["cargo"] = Some(0)
    /\ outcome = Some(Ok)
    /\ path = "exit"

\* C7 as claimed: when the poll loop saw the primary exit, the outcome is Done
\* for status 0 and otherwise Failed carrying the primary's exit code (137
\* gives Failed(137)), in the error value or as the process exit code.
C7_Original ==
    (pc = "exited" /\ path = "exit") =>
        \A s \in cargo_status : \A o \in outcome :
            IF s = 0 THEN o = Ok
            ELSE IsErr(o) /\ (o.codes = {s} \/ exitCode = Some(s))

\* C7 amended: when the poll loop saw the primary exit, the outcome is Done
\* for status 0 and otherwise the fixed error "cargo watch exited with an
\* error", which carries no exit code (137 and 1 give the same error).
C7_Classification ==
    (Returned /\ path = "exit") =>
        \A s \in cargo_status :
            outcome = Some(IF s = 0 THEN Ok ELSE Err("cargo watch exited with an error"))

\* C7 witness: the primary ended with 137, was seen by try_wait, and dev()
\* returned.
C7_Witness ==
    /\ pc = "returned"
    /\ path = "exit"
    /\ cargo_status = Some(137)

\* C8 (exit-code mapping): the process exit code is 0 exactly when cancellation
\* was observed or the primary was seen to exit with success, and 1 on install
\* failure, primary spawn failure, handler-install failure, primary non-zero
\* exit, lost primary handle and try_wait error.
C8_ExitCode ==
    pc = "exited" =>
        /\ path \in {"install_fail", "spawn_fail", "handler_fail", "cancel",
                     "poll_err", "lost", "exit"}
        /\ exitCode = Some(IF path = "cancel" \/ (path = "exit" /\ cargo_status = Some(0))
                           THEN 0 ELSE 1)

\* C8 witness: the process has exited with code 1 after the primary ended with
\* a non-zero status.
C8_Witness ==
    /\ pc = "exited"
    /\ exitCode = Some(1)
    /\ path = "exit"
    /\ cargo_status = Some(1)

\* C9 (install failure is fatal before any spawn): if cargo-watch is missing
\* and installing it fails, dev() fails, no child was spawned and no kill or
\* wait was issued.
C9_InstallFatal ==
    InstallFailed =>
        /\ \A o \in outcome : IsErr(o)
        /\ outcome # None
        /\ path = "install_fail"
        /\ \A r \in Roles : ~Spawned(r)
        /\ killLog = <<>> /\ waitLog = <<>>

\* C9 witness: both probes said no, the install failed, and the process has
\* exited with code 1.
C9_Witness ==
    /\ pc = "exited"
    /\ inputs["install"] = Some("failed")
    /\ exitCode = Some(1)

\* C10 as claimed: if installing the interrupt handler fails, the outcome is
\* fatal and no child process has been spawned.
C10_Original ==
    HandlerFailed =>
        /\ outcome # None /\ \A o \in outcome : IsErr(o)
        /\ \A r \in Roles : ~Spawned(r)

\* C10 amended: if installing the interrupt handler fails, the outcome is
\* fatal; the handler is installed after spawning, so cargo watch (and
\* Tailwind, if it was spawned) already runs, and each spawned child is killed
\* and waited on exactly once by its guard's drop, cargo watch first, before
\* the error reaches the caller.
C10_HandlerFatal ==
    HandlerFailed =>
        /\ outcome # None /\ \A o \in outcome : IsErr(o)
        /\ Spawned("cargo")
        /\ ~handlerInstalled
        /\ killLog = waitLog
        /\ killLog = IF ~Returned THEN <<>>
                     ELSE IF Spawned("tailwind") THEN <<"cargo", "tailwind">>
                     ELSE <<"cargo">>

\* C10 witness: the handler could not be installed with both children
\* spawned, and dev() has returned.
C10_Witness ==
    /\ HandlerFailed
    /\ Spawned("tailwind")
    /\ pc = "returned"

TailwindSpawnFailed == inputs["tw_spawn"] = Some(FALSE)
InLoopOrLater == pc \in {"l148", "l152", "l157", "l166", "l184", "l188", "drop",
                         "returned", "exited"}

\* C11 (secondary spawn failure is non-fatal): if Tailwind is enabled and its
\* spawn fails, dev() holds no Tailwind guard, goes on to spawn cargo watch,
\* enters the poll loop with the primary alone, and its Result is decided by
\* the primary and the cancellation alone (primary exits 0 gives Ok).
C11_SecondaryNonFatal ==
    TailwindSpawnFailed =>
        /\ tailwind_guard = "None"
        /\ ~Spawned("tailwind")
        /\ Count(killLog, "tailwind") = 0
        /\ pc = "l125" \/ inputs["cargo_spawn"] # None
        /\ inputs["cargo_spawn"] = Some(TRUE) => Spawned("cargo")
        /\ inputs["handler"] = Some(TRUE) => InLoopOrLater
        /\ Returned => outcome = Some(ExpectedOutcome)
        /\ (Returned /\ cargo_status = Some(0)) => outcome = Some(Ok)

\* C11 witness: the Tailwind spawn failed, cargo watch ran alone, ended with
\* status 0, and dev() returned Ok.
C11_Witness ==
    /\ TailwindSpawnFailed
    /\ pc = "returned"
    /\ cargo_status = Some(0)
    /\ outcome = Some(Ok)

\* C12 as claimed: whenever Tailwind is enabled, its spawn is attempted and the
\* spawn fails, a warning is emitted to the user before the session goes on
\* with the primary alone.
C12_Original == TailwindSpawnFailed => warnings # {}

\* C13 as claimed: with Tailwind enabled, the "npx not found" warning is
\* emitted exactly when the spawn is skipped because npx is unreachable, and no
\* Tailwind process is spawned in a session that printed the warning; the two
\* is_npx_available() probes (lines 94 and 105) answer independently.
C13_Original ==
    inputs["npx2"] # None =>
        /\ ("npx not found" \in warnings) <=> (inputs["npx2"] = Some(FALSE))
        /\ ("npx not found" \in warnings) => ~Spawned("tailwind")

CallsOf(log, r) == SelectSeq(log, LAMBDA c : c[2] = r)

\* C15 (Process Guard contract): a guard that gives up its handle, by take or
\* by its destruction, becomes empty and the handle gets kill then wait exactly
\* once; an empty guard stays empty and nothing is issued for it, also when it
\* is destroyed; a guard that keeps its handle issues nothing; no guard holds a
\* handle after its destruction.
C15_GuardContract ==
    [][\A r \in Roles :
        /\ (GuardState(r) = "held" /\ GuardState(r)' # "held") =>
              /\ GuardState(r)' = "empty"
              /\ ~taken(GuardState(r)')
              /\ CallsOf(callLog', r) = CallsOf(callLog, r) \o << <<"kill", r>>, <<"wait", r>> >>
        /\ (GuardState(r) = "held" /\ GuardState(r)' = "held") =>
              CallsOf(callLog', r) = CallsOf(callLog, r)
        /\ GuardState(r) = "empty" =>
              /\ GuardState(r)' = "empty"
              /\ CallsOf(callLog', r) = CallsOf(callLog, r)
        /\ (pc = "drop" /\ pc' = "returned") => GuardState(r)' # "held"
      ]_vars

\* C15 witness: both guards were emptied by take on the cancellation path and
\* then destroyed at the return, and each child got one kill and one wait.
C15_Witness ==
    /\ pc = "returned"
    /\ path = "cancel"
    /\ cargo_guard = "empty" /\ tailwind_guard = "empty"
    /\ Len(callLog) = 4

\* The position of a line of dev() in its control flow (the two shutdown
\* paths are alternatives at the same depth).
Rank(l) ==
    CASE l = "l85" -> 1 [] l = "l87" -> 2 [] l = "l91" -> 3 [] l = "l94" -> 4
      [] l = "l105" -> 5 [] l = "l125" -> 6 [] l = "l138" -> 7 [] l = "l148" -> 8
      [] l = "l166" -> 9 [] l = "l152" -> 10 [] l = "l184" -> 10 [] l = "l157" -> 11
      [] l = "l188" -> 11 [] l = "drop" -> 12 [] l = "returned" -> 13
      [] l = "exited" -> 14

PollFailed == inputs["poll_err"] = Some(TRUE)

\* C16 (no retry): `cargo install cargo-watch` runs at most once per session;
\* a failed install, primary spawn, handler install or poll sends dev()
\* straight to its return, a failed Tailwind spawn is passed by, and control
\* never goes back to an earlier step: the only backward edge is the poll
\* loop's, taken after a try_wait that succeeded.
C16_NoRetry ==
    /\ [](installAttempts <= 1)
    /\ []((InstallFailed \/ CargoSpawnFailed \/ HandlerFailed \/ PollFailed)
             => pc \in {"drop", "returned", "exited"})
    /\ [](TailwindSpawnFailed => Rank(pc) > Rank("l105"))
    /\ [][pc' # pc =>
            \/ Rank(pc') > Rank(pc)
            \/ (pc = "l166" /\ pc' = "l148" /\ inputs'["poll_err"] = Some(FALSE))]_vars

\* C16 witness: the one install succeeded, a later try_wait failed after a
\* full poll iteration, and dev() returned without polling again.
C16_Witness ==
    /\ installAttempts = 1
    /\ inputs["install"] = Some("ok")
    /\ PollFailed
    /\ polls >= 1
    /\ pc = "returned"

\* C17 (handler frame): a step of the interrupt handler sets the latch and
\* changes nothing else: not the guards, the processes, the position or
\* locals of dev(), the outcome, nor the calls made on any child.  (Of the
\* history kept in `inputs` only the place of the first interrupt is noted.)
C17_HandlerFrame ==
    [][interrupts' # interrupts =>
          /\ running' = FALSE
          /\ \A k \in InputKeys \ {"interrupt_at"} : inputs'[k] = inputs[k]
          /\ UNCHANGED <<pc, cargo_guard, tailwind_guard, proc, status, tailwind_enabled,
                         handlerInstalled, cargo_status, outcome, exitCode, killLog,
                         waitLog, callLog, path, warnings, installAttempts,
                         polls>>]_vars

\* C17 witness: one interrupt was handled while the loop waited with both
\* children running; the latch is set and no call was made on a child.
C17_Witness ==
    /\ interrupts = 1
    /\ ~running
    /\ pc = "l148"
    /\ proc = [r \in Roles |-> "running"]
    /\ callLog = <<>>

\* The names the rule of the documentation admits: not empty, an ASCII letter
\* first, then ASCII letters, digits, hyphens and underscores only.
ValidName(n) ==
    /\ Len(n) >= 1
    /\ n[1] \in Letter
    /\ \A i \in 2..Len(n) : n[i] \in Letter \cup Digit \cup {"-", "_"}

\* C18 (validate_project_name): the call returns Ok exactly for the names that
\* are not empty, start with an ASCII letter and continue with ASCII letters,
\* digits, hyphens and underscores only; for every other name it returns an
\* error.
C18_Validate ==
    result # None =>
        /\ (result = Some(Ok)) <=> ValidName(name)
        /\ ~ValidName(name) => \A o \in result : IsErr(o)

\* C18 witness: a name starting with a digit, otherwise well formed, was
\* rejected.
C18_Witness ==
    /\ name = <<"7", "a", "-">>
    /\ result = Some(Err("Invalid project name"))

\* C19 (poll priority): the flag is read before the primary is checked: a flag
\* check that finds the latch set takes the cancellation path whatever the
\* state of the primary (running, or already exited with any status) without
\* looking at its status, and the cancellation path returns Ok.
C19_PollPriority ==
    /\ [][(pc = "l148" /\ ~running /\ pc' # pc) =>
             /\ pc' = "l152"
             /\ path' = "cancel"
             /\ cargo_status' = None]_vars
    /\ []((path = "cancel" /\ Returned) => (outcome = Some(Ok) /\ cargo_status = None))

\* C19 witness: cargo watch had ended by itself with status 137, the latch was
\* set too, and dev() took the cancellation path and returned Ok without ever
\* seeing that status.
C19_Witness ==
    /\ pc = "returned"
    /\ path = "cancel"
    /\ status["cargo"] = Some(137)
    /\ cargo_status = None
    /\ outcome = Some(Ok)

\* C20 (primary-exit path cleans up the secondary first): once try_wait has
\* seen the primary's exit, Tailwind, if its guard held it, has been taken and
\* got kill then wait before the status is classified and before any Result
\* exists, for every status of the primary.
C20_ExitCleansSecondary ==
    path = "exit" =>
        /\ pc = "l184" => outcome = None
        /\ pc \in {"l188", "drop", "returned", "exited"} =>
              /\ tailwind_guard # "held"
              /\ Spawned("tailwind") =>
                    /\ proc["tailwind"] = "reaped"
                    /\ CallsOf(callLog, "tailwind") = << <<"kill", "tailwind">>, <<"wait", "tailwind">> >>
        /\ pc = "l188" =>
              /\ outcome = None
              /\ CallsOf(callLog, "cargo") = <<>>

\* C20 witness: the primary ended with 137 while Tailwind ran; Tailwind has
\* been killed and waited on, and the status is about to be classified.
C20_Witness ==
    /\ pc = "l188"
    /\ cargo_status = Some(137)
    /\ status["tailwind"] = None
    /\ callLog = << <<"kill", "tailwind">>, <<"wait", "tailwind">> >>

\* C21 (a poll error is fatal, with cleanup): when try_wait fails in the poll
\* loop dev() returns an error and exit status 1 follows; nothing was killed on
\* the way to the return, and by the time the error reaches the caller the
\* guards have issued kill then wait exactly once for cargo watch and, when
\* Tailwind was held, exactly once for Tailwind, and neither guard holds a
\* handle any more.
C21_PollErrorCleanup ==
    /\ (path = "poll_err" /\ pc = "drop") =>
           /\ callLog = << >>
           /\ cargo_guard = "held"
           /\ Spawned("tailwind") <=> tailwind_guard = "held"
    /\ (path = "poll_err" /\ Returned) =>
           /\ outcome = Some(Err("io error in try_wait"))
           /\ callLog = << <<"kill", "cargo">>, <<"wait", "cargo">> >>
                        \o (IF Spawned("tailwind")
                            THEN << <<"kill", "tailwind">>, <<"wait", "tailwind">> >>
                            ELSE << >>)
           /\ \A r \in Roles : GuardState(r) # "held"
           /\ \A r \in Roles : Spawned(r) => proc[r] = "reaped"
    /\ (path = "poll_err" /\ pc = "exited") => exitCode = Some(1)

\* C21 witness: try_wait failed on the second poll while both children ran;
\* dev() has returned the error and both guards have killed and reaped.
C21_Witness ==
    /\ pc = "exited"
    /\ path = "poll_err"
    /\ polls >= 1
    /\ exitCode = Some(1)
    /\ callLog = << <<"kill", "cargo">>, <<"wait", "cargo">>,
                    <<"kill", "tailwind">>, <<"wait", "tailwind">> >>

\* The places of dev() at which an interrupt finds the handler installed and
\* dev() not yet returned.
BeforeReturn == {"l148", "l152", "l157", "l166", "l184", "l188", "drop"}

\* C22 as stated (cancellation under every interleaving): a session whose
\* first interrupt was delivered after the handler was installed and before
\* dev() began to return ends with Ok and exit status 0.
C22_Original ==
    (pc = "exited" /\ inputs["interrupt_at"] \cap (BeforeReturn \ {"drop"}) # {}) =>
        (outcome = Some(Ok) /\ exitCode = Some(0))

\* C22 (cancellation outcome under every interleaving, amended): the session
\* ends by cancellation (Ok, exit status 0) exactly when a latch read at line
\* 148 finds the latch set, which an interrupt delivered before that read
\* ensures.  An interrupt that lands after the read does not change the exit
\* check of that iteration, whatever the latch holds by then: a failed
\* try_wait is fatal, an exited cargo watch is classified by its status (exit
\* status 0 for zero, 1 for non-zero), and otherwise the loop goes round to the
\* next latch read.  An interrupt delivered after the loop was left changes
\* nothing.
C22_CancelOutcome ==
    /\ [][(pc = "l166" /\ pc' # pc) =>
             IF inputs'["poll_err"] = Some(TRUE)
             THEN pc' = "drop" /\ path' = "poll_err"
             ELSE IF proc["cargo"] = "exited"
             THEN pc' = "l184" /\ path' = "exit" /\ cargo_status' = status["cargo"]
             ELSE pc' = "l148" /\ path' = path]_vars
    /\ [][(path' = "cancel" /\ path # "cancel") => (pc = "l148" /\ ~running)]_vars
    /\ []((pc = "exited" /\ inputs["interrupt_at"] \cap BeforeReturn # {}) =>
            /\ \/ path = "cancel" /\ exitCode = Some(0)
               \/ /\ path = "exit"
                  /\ exitCode = Some(IF cargo_status = Some(0) THEN 0 ELSE 1)
               \/ path = "poll_err" /\ exitCode = Some(1)
            /\ inputs["interrupt_at"] = Some("l148") => path = "cancel"
            /\ inputs["interrupt_at"] \cap {"l184", "l188", "drop"} # {} => path # "cancel")

\* C22 witness: the first interrupt landed between the latch read and
\* try_wait, try_wait then found cargo watch exited with status 137, and the
\* session ended with exit status 1 although the latch was set.
C22_Witness ==
    /\ pc = "exited"
    /\ inputs["interrupt_at"] = Some("l166")
    /\ ~running
    /\ path = "exit"
    /\ cargo_status = Some(137)
    /\ exitCode = Some(1)

\* C23 (the primary handle is never lost while polling): whenever the loop is
\* at its exit check, and whenever it is at its latch read, cargo_guard holds
\* the handle, so the `cargo-watch process was lost` branch of line 179 is
\* never taken; the handle leaves the guard only by the take() of line 152 on
\* the cancellation path or by the guard's drop on the way out of dev(), and
\* neither is followed by another poll.
C23_HandleNotLost ==
    /\ [](pc \in {"l148", "l166"} => cargo_guard = "held")
    /\ [](path # "lost" /\ outcome # Some(Err("cargo-watch process was lost")))
    /\ [][(cargo_guard = "held" /\ cargo_guard' # "held") => pc \in {"l152", "drop"}]_vars
    /\ [][cargo_guard = "empty" => pc' \notin {"l148", "l166"}]_vars

\* C23 witness: the exit check is reached a third time, cargo watch has
\* exited by itself meanwhile, and the guard still holds the handle.
C23_Witness ==
    /\ pc = "l166"
    /\ polls = 2
    /\ cargo_guard = "held"
    /\ proc["cargo"] = "exited"
    /\ interrupts = 0

\* The steps of dev() itself: every step of the main thread but the caller's.
DevStep == MainThread /\ pc # "returned"

\* C24 as stated (termination and single outcome): under fair scheduling a
\* session in which cargo watch has exited, or an interrupt was delivered with
\* the handler installed, reaches its end; the outcome is returned once and
\* nothing follows it; and as long as neither has happened, a session whose
\* handler is installed is in the poll loop and has issued no kill.
C24_Original ==
    /\ (proc["cargo"] = "exited" \/ (handlerInstalled /\ ~running)) ~> pc = "exited"
    /\ [](Returned => Cardinality(outcome) = 1)
    /\ [][outcome # None => outcome' = outcome]_vars
    /\ [][Returned => ~DevStep]_vars
    /\ []((handlerInstalled /\ interrupts = 0 /\ status["cargo"] = None) =>
            (pc \in {"l148", "l166"} /\ callLog = << >>))

\* C24 (termination and single outcome, amended): under fair scheduling a
\* session in which cargo watch has exited, an interrupt was delivered with the
\* handler installed, or try_wait has failed, reaches its end; dev() returns
\* exactly one outcome, which never changes once set, and after its return no
\* step of dev() is taken and no kill or wait is issued.  As long as cargo
\* watch has not exited, no interrupt was delivered and try_wait has not
\* failed, a session whose handler is installed is in the poll loop and has
\* issued no kill; a failed try_wait is the third way out of the loop.
C24_Termination ==
    /\ (proc["cargo"] = "exited" \/ (handlerInstalled /\ ~running) \/ PollFailed)
          ~> pc = "exited"
    /\ [](Returned => Cardinality(outcome) = 1)
    /\ [](pc = "exited" => Cardinality(exitCode) = 1)
    /\ [][outcome # None => outcome' = outcome]_vars
    /\ [][Returned => (~DevStep /\ callLog' = callLog /\ pc' \in {"returned", "exited"})]_vars
    /\ []((handlerInstalled /\ interrupts = 0 /\ status["cargo"] = None /\ ~PollFailed) =>
            (pc \in {"l148", "l166"} /\ callLog = << >>))
    /\ [][(pc = "l166" /\ inputs'["poll_err"] = Some(TRUE) /\ pc' # pc) =>
             (pc' = "drop" /\ outcome' # None)]_vars

\* C24 witness: no interrupt came, cargo watch exited with status 0 after two
\* polls had found it running, and the session has ended with exit status 0.
C24_Witness ==
    /\ pc = "exited"
    /\ path = "exit"
    /\ interrupts = 0
    /\ polls = 2
    /\ cargo_status = Some(0)
    /\ outcome = Some(Ok)
    /\ exitCode = Some(0)

CreateReturned == create_pc = "returned"
CreateFailed == create_result # None /\ \A r \in create_result : IsErr(r)
Removals == Count(fsLog, "remove_dir_all")

\* C25 as stated (create_app cleans up after itself): an existing directory
\* makes create_app fail and is not touched; when create_app made the
\* directory and the download, the placeholder pass or git init failed, the
\* directory is gone when the error is returned; on success it remains.
C25_Original ==
    CreateReturned =>
        /\ create_inputs["existed"] = Some(TRUE) =>
               (CreateFailed /\ project_path = "foreign" /\ fsLog = << >>)
        /\ (/\ create_inputs["mkdir"] = Some(TRUE)
            /\ \/ create_inputs["download"] \cap {"failed_before_copy", "failed_in_copy"} # {}
               \/ create_inputs["replace"] = Some(FALSE)
               \/ create_inputs["git"] \cap {"init_failed", "spawn_error"} # {})
              => (CreateFailed /\ ~exists(project_path))
        /\ create_result = Some(Ok) => project_path \in {"project", "repo"}

\* C25 (create_app cleans up after itself, amended): a directory that was
\* there before is never created, written or removed, and create_app fails;
\* a failed create_dir_all is returned with nothing made; when the download
\* or the placeholder pass fails in the directory create_app made,
\* remove_dir_all is called on it once before that error is returned, and the
\* directory is gone if the removal succeeded and still there if it failed;
\* git init never fails create_app: whatever it did, create_app returns Ok
\* with the directory in place and nothing removed; create_app returns Ok
\* only with the directory in place.
C25_Cleanup ==
    /\ [][project_path = "foreign" => (project_path' = "foreign" /\ fsLog' = fsLog)]_vars
    /\ [](CreateReturned =>
            /\ Cardinality(create_result) = 1
            /\ create_inputs["existed"] = Some(TRUE) =>
                   (CreateFailed /\ project_path = "foreign" /\ fsLog = << >>)
            /\ create_inputs["mkdir"] = Some(FALSE) =>
                   (CreateFailed /\ ~exists(project_path) /\ Removals = 0)
            /\ (\/ create_inputs["download"] \cap {"failed_before_copy", "failed_in_copy"} # {}
                \/ create_inputs["replace"] = Some(FALSE)) =>
                   /\ CreateFailed
                   /\ create_result = closure_result
                   /\ Removals = 1
                   /\ fsLog[Len(fsLog)] = "remove_dir_all"
                   /\ create_inputs["remove"] = Some(TRUE) => ~exists(project_path)
                   /\ create_inputs["remove"] = Some(FALSE) => project_path \in {"empty", "partial"}
            /\ create_inputs["git"] # None =>
                   /\ create_result = Some(Ok)
                   /\ project_path = (IF create_inputs["git"] = Some("ok") THEN "repo" ELSE "project")
                   /\ Removals = 0
            /\ create_result = Some(Ok) =>
                   (create_inputs["git"] # None /\ create_inputs["cargo_watch"] # None))

\* C25 witness: create_app made the directory, the copy of the template failed
\* half way, remove_dir_all removed the directory and the copy's error was
\* returned.
C25_Witness ==
    /\ CreateReturned
    /\ create_inputs["download"] = Some("failed_in_copy")
    /\ create_inputs["remove"] = Some(TRUE)
    /\ fsLog = <<"create_dir_all", "copy", "remove_dir_all">>
    /\ project_path = "absent"
    /\ create_result = Some(Err("Failed to copy template"))
====
